---- MODULE Spec2Model ----
(***************************************************************************)
(* Azure Blob Storage credential resolution of runai_model_streamer_azure   *)
(* (credentials/credentials.py): AzureCredentials, get_credentials and      *)
(* create_blob_service_client; and the S3 access diagnostic script          *)
(* check_s3_access.py.                                                      *)
(*                                                                         *)
(* A Python str is modelled as the sequence of its characters (one-letter   *)
(* TLA+ strings), so that startswith, concatenation and f-strings are       *)
(* computed as the code computes them.  Python's None is the one-element    *)
(* sequence <<"None">>, which is no str because its element is not a single *)
(* character.                                                               *)
(***************************************************************************)
EXTENDS Naturals, Sequences, FiniteSets

VARIABLES env, arg, given, credentials, pc, result

\* check_s3_access.py: the process environment, the position in the script,
\* whether s3_client exists, the S3 calls made so far, the messages printed so
\* far and the exit status of the process (empty while it runs)
VARIABLES s3env, s3pc, s3_client, calls, printed, exit_status

azure_vars == <<env, arg, given, credentials, pc, result>>

s3_vars == <<s3env, s3pc, s3_client, calls, printed, exit_status>>

vars == <<env, arg, given, credentials, pc, result,
          s3env, s3pc, s3_client, calls, printed, exit_status>>

None == <<"None">>

\* Python truthiness of an Optional[str]: None and "" are falsy.
Truthy(x) == x # None /\ x # <<>>

\* str.startswith(prefix)
StartsWith(s, prefix) ==
    /\ s # None
    /\ Len(s) >= Len(prefix)
    /\ SubSeq(s, 1, Len(prefix)) = prefix

----------------------------------------------------------------------------
(* Input domains *)

MaxTokenLen == 2

TokenAlphabet == {"?", "s"}

RECURSIVE StringsUpTo(_, _)
StringsUpTo(alphabet, n) ==
    IF n = 0 THEN {<<>>}
    ELSE LET shorter == StringsUpTo(alphabet, n - 1)
         IN  shorter \cup {Append(s, ch) : s \in shorter, ch \in alphabet}

\* the token of the documented scenario, 'sv=2020'
Sv2020 == <<"s", "v", "=", "2", "0", "2", "0">>

Tokens == StringsUpTo(TokenAlphabet, MaxTokenLen) \cup {Sv2020}

HttpPrefix  == <<"h", "t", "t", "p", ":", "/", "/">>
HttpsPrefix == <<"h", "t", "t", "p", "s", ":", "/", "/">>
BlobSuffix  == <<".", "b", "l", "o", "b", ".", "c", "o", "r", "e", ".",
                 "w", "i", "n", "d", "o", "w", "s", ".", "n", "e", "t">>

Acct == <<"a", "c", "c", "t">>

\* values a caller passes to AzureCredentials(...)
ConnStrings  == {<<>>, <<"X">>}
AccountNames == {<<>>, Acct}
Endpoints    == {<<>>, HttpPrefix \o <<"h">>, HttpsPrefix \o <<"h">>}

\* values the process environment holds
EnvConnStrings  == {<<>>, <<"Y">>}
EnvAccountNames == {<<>>, <<"d", "e", "v">>}
EnvTokens       == {<<>>, <<"e">>, <<"?", "e">>}
EnvEndpoints    == {HttpPrefix \o <<"e">>, HttpsPrefix \o <<"e">>}
EnvKeys         == {<<"k">>}

Opt(S) == S \cup {None}

Fields == {"connection_string", "account_name", "sas_token", "endpoint"}

\* the environment variable get_credentials reads for each field
EnvVar(f) ==
    CASE f = "connection_string" -> "AZURE_STORAGE_CONNECTION_STRING"
      [] f = "account_name"      -> "AZURE_STORAGE_ACCOUNT_NAME"
      [] f = "sas_token"         -> "AZURE_STORAGE_SAS_TOKEN"
      [] f = "endpoint"          -> "AZURE_STORAGE_ENDPOINT"

----------------------------------------------------------------------------
(* AzureCredentials *)

AzureCredentials(connection_string, account_name, sas_token, endpoint) ==
    [connection_string |-> connection_string,
     account_name      |-> account_name,
     sas_token         |-> sas_token,
     endpoint          |-> endpoint]

EmptyCredentials == AzureCredentials(None, None, None, None)

----------------------------------------------------------------------------
(* get_credentials *)

\* os.environ.get(name): the value, or None when the variable is unset
EnvironGet(e, name) == e[name]

get_credentials_overwrite(c, e) ==
    [f \in Fields |->
        IF EnvironGet(e, EnvVar(f)) # None THEN EnvironGet(e, EnvVar(f)) ELSE c[f]]

get_credentials_skip_when_connection_string(c, e) ==
    [f \in Fields |->
        IF Truthy(c.connection_string) \/ Truthy(c[f])
        THEN c[f] ELSE EnvironGet(e, EnvVar(f))]

get_credentials(c, e) ==
    [f \in Fields |->
        IF ~Truthy(c[f]) THEN EnvironGet(e, EnvVar(f)) ELSE c[f]]

----------------------------------------------------------------------------
(* create_blob_service_client *)

NoResult ==
    [kind |-> "pending", ctor |-> "none", conn_str |-> None,
     account_url |-> None, credential |-> "none"]

ValueError ==
    [kind |-> "ValueError", ctor |-> "none", conn_str |-> None,
     account_url |-> None, credential |-> "none"]

\* BlobServiceClient.from_connection_string(conn_str)
FromConnectionString(conn_str) ==
    [kind |-> "client", ctor |-> "from_connection_string", conn_str |-> conn_str,
     account_url |-> None, credential |-> "none"]

\* BlobServiceClient(account_url=..., credential=...)
BlobServiceClient(account_url, credential) ==
    [kind |-> "client", ctor |-> "BlobServiceClient", conn_str |-> None,
     account_url |-> account_url, credential |-> credential]

\* f"https://{account_name}.blob.core.windows.net"
DefaultAccountUrl(account_name) == HttpsPrefix \o account_name \o BlobSuffix

AccountUrl_ignore_endpoint(creds) == DefaultAccountUrl(creds.account_name)

\* creds.endpoint or f"https://{creds.account_name}.blob.core.windows.net"
AccountUrl(creds) ==
    IF Truthy(creds.endpoint) THEN creds.endpoint
    ELSE DefaultAccountUrl(creds.account_name)

NormalizeSas_always_prepend(sas_token) == <<"?">> \o sas_token

\* creds.sas_token if creds.sas_token.startswith("?") else f"?{creds.sas_token}"
NormalizeSas(sas_token) ==
    IF StartsWith(sas_token, <<"?">>) THEN sas_token ELSE <<"?">> \o sas_token

BuildClient_sas_first(creds, e) ==
    IF Truthy(creds.account_name) /\ Truthy(creds.sas_token)
    THEN BlobServiceClient(AccountUrl(creds) \o NormalizeSas(creds.sas_token), "none")
    ELSE IF Truthy(creds.connection_string)
    THEN FromConnectionString(creds.connection_string)
    ELSE IF Truthy(creds.account_name)
    THEN BlobServiceClient(AccountUrl(creds), "DefaultAzureCredential")
    ELSE ValueError

BuildClient_key_on_http(creds, e) ==
    IF Truthy(creds.connection_string)
    THEN FromConnectionString(creds.connection_string)
    ELSE IF Truthy(creds.account_name) /\ Truthy(creds.sas_token)
    THEN BlobServiceClient(AccountUrl(creds) \o NormalizeSas(creds.sas_token), "none")
    ELSE IF Truthy(creds.account_name)
    THEN IF StartsWith(AccountUrl(creds), HttpPrefix)
            /\ Truthy(e["AZURE_STORAGE_ACCOUNT_KEY"])
         THEN BlobServiceClient(AccountUrl(creds), "AccountKey")
         ELSE BlobServiceClient(AccountUrl(creds), "DefaultAzureCredential")
    ELSE ValueError

BuildClient_key_when_set(creds, e) ==
    IF Truthy(creds.connection_string)
    THEN FromConnectionString(creds.connection_string)
    ELSE IF Truthy(creds.account_name) /\ Truthy(creds.sas_token)
    THEN BlobServiceClient(AccountUrl(creds) \o NormalizeSas(creds.sas_token), "none")
    ELSE IF Truthy(creds.account_name)
    THEN IF Truthy(e["AZURE_STORAGE_ACCOUNT_KEY"])
         THEN BlobServiceClient(AccountUrl(creds), "AccountKey")
         ELSE BlobServiceClient(AccountUrl(creds), "DefaultAzureCredential")
    ELSE ValueError

BuildClient_default_chain_without_account(creds, e) ==
    IF Truthy(creds.connection_string)
    THEN FromConnectionString(creds.connection_string)
    ELSE IF Truthy(creds.account_name) /\ Truthy(creds.sas_token)
    THEN BlobServiceClient(AccountUrl(creds) \o NormalizeSas(creds.sas_token), "none")
    ELSE IF Truthy(creds.account_name)
    THEN BlobServiceClient(AccountUrl(creds), "DefaultAzureCredential")
    ELSE BlobServiceClient(HttpsPrefix \o BlobSuffix, "DefaultAzureCredential")

BuildClient_sas_without_account(creds, e) ==
    IF Truthy(creds.connection_string)
    THEN FromConnectionString(creds.connection_string)
    ELSE IF Truthy(creds.sas_token)
    THEN BlobServiceClient(AccountUrl(creds) \o NormalizeSas(creds.sas_token), "none")
    ELSE IF Truthy(creds.account_name)
    THEN BlobServiceClient(AccountUrl(creds), "DefaultAzureCredential")
    ELSE ValueError

\* the strategy selection of create_blob_service_client on resolved
\* credentials.  e is the process environment (os.environ), which the function
\* can see; the code reads it only through get_credentials.
BuildClient(creds, e) ==
    IF Truthy(creds.connection_string)
    THEN FromConnectionString(creds.connection_string)
    ELSE IF Truthy(creds.account_name) /\ Truthy(creds.sas_token)
    THEN BlobServiceClient(AccountUrl(creds) \o NormalizeSas(creds.sas_token), "none")
    ELSE IF Truthy(creds.account_name)
    THEN BlobServiceClient(AccountUrl(creds), "DefaultAzureCredential")
    ELSE ValueError

----------------------------------------------------------------------------
(* The program: a caller constructs a bundle (or passes None) in some       *)
(* process environment, and calls get_credentials and/or                     *)
(* create_blob_service_client on it.                                         *)

Environments ==
    [AZURE_STORAGE_CONNECTION_STRING : Opt(EnvConnStrings),
     AZURE_STORAGE_ACCOUNT_NAME      : Opt(EnvAccountNames),
     AZURE_STORAGE_SAS_TOKEN         : Opt(EnvTokens),
     AZURE_STORAGE_ENDPOINT          : Opt(EnvEndpoints),
     AZURE_STORAGE_ACCOUNT_KEY       : Opt(EnvKeys)]

Bundles ==
    {AzureCredentials(cs, an, st, ep) :
        cs \in Opt(ConnStrings), an \in Opt(AccountNames),
        st \in Opt(Tokens), ep \in Opt(Endpoints)}

\* the diagnostic script before its first statement, in environment e
S3Start(e) ==
    /\ s3env = e
    /\ s3pc = "start"
    /\ s3_client = FALSE
    /\ calls = <<>>
    /\ printed = <<>>
    /\ exit_status = {}

NoAwsEnvironment ==
    [AWS_ACCESS_KEY_ID |-> None, AWS_SECRET_ACCESS_KEY |-> None, AWS_REGION |-> None]

Init ==
    /\ env \in Environments
    /\ arg \in {"None", "object"}
    /\ given \in Bundles
    /\ arg = "None" => given = EmptyCredentials
    /\ credentials = given
    /\ pc = "start"
    /\ result = NoResult
    /\ S3Start(NoAwsEnvironment)

\* a caller resolves the bundle itself: creds = get_credentials(credentials)
GetCredentials ==
    /\ pc = "start"
    /\ credentials' = get_credentials(credentials, env)
    /\ pc' = "resolved"
    /\ UNCHANGED <<env, arg, given, result>>
    /\ UNCHANGED s3_vars

\* client = create_blob_service_client(credentials), on a fresh or on an
\* already resolved bundle
CreateBlobServiceClient ==
    /\ pc \in {"start", "resolved"}
    /\ LET creds == get_credentials(credentials, env)
       IN  /\ credentials' = creds
           /\ result' = BuildClient(creds, env)
    /\ pc' = "done"
    /\ UNCHANGED <<env, arg, given>>
    /\ UNCHANGED s3_vars

Next == GetCredentials \/ CreateBlobServiceClient

Spec == Init /\ [][Next]_vars

----------------------------------------------------------------------------
(* check_s3_access.py *)

UsEast1 == <<"u", "s", "-", "e", "a", "s", "t", "-", "1">>
EuWest1 == <<"e", "u", "-", "w", "e", "s", "t", "-", "1">>

\* values of the AWS_* environment variables
AwsKeys    == {<<>>, <<"A", "K">>}
AwsSecrets == {<<>>, <<"S", "K">>}
AwsRegions == {UsEast1, EuWest1}

AwsEnvironments ==
    [AWS_ACCESS_KEY_ID     : Opt(AwsKeys),
     AWS_SECRET_ACCESS_KEY : Opt(AwsSecrets),
     AWS_REGION            : Opt(AwsRegions)]

\* os.getenv(name, default)
Getenv(e, name, default) == IF e[name] = None THEN default ELSE e[name]

aws_key    == Getenv(s3env, "AWS_ACCESS_KEY_ID", None)
aws_secret == Getenv(s3env, "AWS_SECRET_ACCESS_KEY", None)
aws_region == Getenv(s3env, "AWS_REGION", UsEast1)

CredentialsMissing_both(key, secret) == ~Truthy(key) /\ ~Truthy(secret)

\* if not aws_key or not aws_secret
CredentialsMissing(key, secret) == ~Truthy(key) \/ ~Truthy(secret)

\* what boto3 and an S3 call can raise: botocore's ClientError and
\* NoCredentialsError, and any other exception
SdkExceptions == {"ClientError", "NoCredentialsError", "Exception"}

\* e.response['Error']['Code'] of a ClientError
ErrorCodes == {"404", "403"}

\* the outcomes of one S3 call: it returns, or raises; a ClientError carries a code
Outcomes ==
    {[raised |-> "none", code |-> ""]}
    \cup {[raised |-> "ClientError", code |-> c] : c \in ErrorCodes}
    \cup {[raised |-> x, code |-> ""] : x \in SdkExceptions \ {"ClientError"}}

S3Call(op, outcome) == [op |-> op, raised |-> outcome.raised, code |-> outcome.code]

InnerCatches_nothing(raised) == FALSE

\* the `except ClientError as e` clause of each test
InnerCatches(raised) == raised = "ClientError"

IsNotFound_any_code(code) == TRUE

\* e.response['Error']['Code'] == '404'
IsNotFound(code) == code = "404"

\* the outer `except NoCredentialsError` / `except Exception` clauses: the
\* script prints the error and ends without the summary
OuterExcept(raised) ==
    /\ printed' = Append(printed, IF raised = "NoCredentialsError"
                                  THEN "no_credentials" ELSE "unexpected_error")
    /\ s3pc' = "end"
    /\ exit_status' = {0}

Summary == <<"summary">>

\* lines 18-31: read the environment, exit with status 1 without credentials
CheckCredentials ==
    /\ s3pc = "start"
    /\ IF CredentialsMissing(aws_key, aws_secret)
       THEN /\ printed' = Append(printed, "credentials_not_found")
            /\ exit_status' = {1}
            /\ s3pc' = "exited"
       ELSE /\ printed' = Append(printed, "credentials_found")
            /\ exit_status' = exit_status
            /\ s3pc' = "create_client"
    /\ UNCHANGED <<s3env, s3_client, calls>>
    /\ UNCHANGED azure_vars

\* lines 35-40: s3_client = boto3.client('s3', ...)
CreateS3Client ==
    /\ s3pc = "create_client"
    /\ \E raised \in {"none"} \cup SdkExceptions :
          IF raised = "none"
          THEN /\ s3_client' = TRUE
               /\ s3pc' = "test1"
               /\ UNCHANGED <<printed, exit_status>>
          ELSE /\ OuterExcept(raised)
               /\ UNCHANGED s3_client
    /\ UNCHANGED <<s3env, calls>>
    /\ UNCHANGED azure_vars

\* lines 42-57: Test 1, s3_client.list_buckets()
Test1ListBuckets ==
    /\ s3pc = "test1"
    /\ \E outcome \in Outcomes, found \in BOOLEAN :
          /\ calls' = Append(calls, S3Call("list_buckets", outcome))
          /\ IF outcome.raised = "none"
             THEN /\ printed' = printed \o <<"test1",
                         IF found THEN "bucket_exists" ELSE "bucket_not_found">>
                  /\ s3pc' = "test2"
                  /\ UNCHANGED exit_status
             ELSE IF InnerCatches(outcome.raised)
             THEN /\ printed' = printed \o <<"test1", "failed_to_list_buckets">>
                  /\ s3pc' = "test2"
                  /\ UNCHANGED exit_status
             ELSE /\ OuterExcept(outcome.raised)
    /\ UNCHANGED <<s3env, s3_client>>
    /\ UNCHANGED azure_vars

\* lines 59-72: Test 2, s3_client.get_bucket_location(Bucket=S3_BUCKET)
Test2GetBucketLocation ==
    /\ s3pc = "test2"
    /\ \E outcome \in Outcomes, constraint \in Opt({EuWest1}) :
          /\ calls' = Append(calls, S3Call("get_bucket_location", outcome))
          /\ IF outcome.raised = "none"
             THEN LET bucket_region == IF Truthy(constraint) THEN constraint ELSE UsEast1
                  IN  /\ printed' = printed \o <<"test2", "bucket_region">> \o
                            (IF bucket_region # aws_region
                             THEN <<"region_warning">> ELSE <<>>)
                      /\ s3pc' = "test3"
                      /\ UNCHANGED exit_status
             ELSE IF InnerCatches(outcome.raised)
             THEN /\ printed' = printed \o <<"test2", "failed_to_get_bucket_location">>
                  /\ s3pc' = "test3"
                  /\ UNCHANGED exit_status
             ELSE /\ OuterExcept(outcome.raised)
    /\ UNCHANGED <<s3env, s3_client>>
    /\ UNCHANGED azure_vars

\* lines 74-106: Test 3, s3_client.head_object(...), and the summary unless
\* the file is missing and the bucket is listed first
Test3HeadObject ==
    /\ s3pc = "test3"
    /\ \E outcome \in Outcomes :
          /\ calls' = Append(calls, S3Call("head_object", outcome))
          /\ IF outcome.raised = "none"
             THEN /\ printed' = printed \o <<"test3", "file_exists">> \o Summary
                  /\ s3pc' = "end"
                  /\ exit_status' = {0}
             ELSE IF InnerCatches(outcome.raised)
             THEN IF IsNotFound(outcome.code)
                  THEN /\ printed' = printed \o <<"test3", "file_not_found", "listing_files">>
                       /\ s3pc' = "listing"
                       /\ UNCHANGED exit_status
                  ELSE /\ printed' = printed \o <<"test3", "error_checking_file">> \o Summary
                       /\ s3pc' = "end"
                       /\ exit_status' = {0}
             ELSE /\ OuterExcept(outcome.raised)
    /\ UNCHANGED <<s3env, s3_client>>
    /\ UNCHANGED azure_vars

\* lines 88-106: s3_client.list_objects_v2(Bucket=S3_BUCKET, MaxKeys=20) under
\* `except Exception`, then the summary
ListBucketObjects ==
    /\ s3pc = "listing"
    /\ \E outcome \in Outcomes, has_contents \in BOOLEAN :
          /\ calls' = Append(calls, S3Call("list_objects_v2", outcome))
          /\ printed' = printed \o
                <<IF outcome.raised # "none" THEN "could_not_list_bucket"
                  ELSE IF has_contents THEN "found_files" ELSE "bucket_is_empty">>
                \o Summary
    /\ s3pc' = "end"
    /\ exit_status' = {0}
    /\ UNCHANGED <<s3env, s3_client>>
    /\ UNCHANGED azure_vars

\* the Azure resolver is not used while the script runs
InitS3 ==
    /\ \E e \in AwsEnvironments : S3Start(e)
    /\ env = [AZURE_STORAGE_CONNECTION_STRING |-> None,
               AZURE_STORAGE_ACCOUNT_NAME      |-> None,
               AZURE_STORAGE_SAS_TOKEN         |-> None,
               AZURE_STORAGE_ENDPOINT          |-> None,
               AZURE_STORAGE_ACCOUNT_KEY       |-> None]
    /\ arg = "None"
    /\ given = EmptyCredentials
    /\ credentials = EmptyCredentials
    /\ pc = "start"
    /\ result = NoResult

NextS3 ==
    \/ CheckCredentials
    \/ CreateS3Client
    \/ Test1ListBuckets
    \/ Test2GetBucketLocation
    \/ Test3HeadObject
    \/ ListBucketObjects

SpecS3 == InitS3 /\ [][NextS3]_vars

----------------------------------------------------------------------------
(* Properties *)

Done == pc = "done"

\* the resolved bundle selects no connection string and no token, only an account
OnlyAccount ==
    /\ ~Truthy(credentials.connection_string)
    /\ Truthy(credentials.account_name)
    /\ ~Truthy(credentials.sas_token)

SasCase ==
    /\ ~Truthy(credentials.connection_string)
    /\ Truthy(credentials.account_name)
    /\ Truthy(credentials.sas_token)

\* the endpoint the client is built against: the override, else the default
ResolvedEndpoint ==
    IF credentials.endpoint # None /\ credentials.endpoint # <<>>
    THEN credentials.endpoint
    ELSE HttpsPrefix \o credentials.account_name \o BlobSuffix

EnvUnset == \A f \in Fields : env[EnvVar(f)] = None

KeyVar == "AZURE_STORAGE_ACCOUNT_KEY"

C2_ExplicitBeatsEnvironment ==
    (/\ Done
     /\ arg = "object"
     /\ given.connection_string = None
     /\ Truthy(given.account_name)
     /\ Truthy(given.sas_token)) =>
        /\ result.ctor = "BlobServiceClient"
        /\ result.credential = "none"
        /\ result.conn_str = None

\* C3 (as stated): every field the caller supplied with a value other than
\* None has the same value after get_credentials.
C3_NeverOverwritesNonNone ==
    (pc \in {"resolved", "done"}) =>
        \A f \in Fields : given[f] # None => credentials[f] = given[f]

\* C3 (amended): every field the caller supplied with a non-empty value has the
\* same value after get_credentials, whatever the environment holds; a field
\* that was None or empty holds the environment variable's value (None if the
\* variable is unset).
C3_NeverOverwritesNonEmpty ==
    (pc \in {"resolved", "done"}) =>
        \A f \in Fields :
            /\ (given[f] # None /\ given[f] # <<>>) => credentials[f] = given[f]
            /\ (given[f] = None \/ given[f] = <<>>) => credentials[f] = env[EnvVar(f)]

C3_Witness ==
    /\ pc = "resolved"
    /\ \A f \in Fields :
        /\ Truthy(given[f])
        /\ env[EnvVar(f)] # None
        /\ env[EnvVar(f)] # given[f]
        /\ credentials[f] = given[f]

\* C4: with no connection string and both account_name and sas_token resolved,
\* the account URL is the endpoint override when one is set and otherwise
\* https://{account_name}.blob.core.windows.net, followed by the normalized
\* token; account 'acct' with token 'sv=2020' gives
\* https://acct.blob.core.windows.net?sv=2020.
C4_SasAccountUrl ==
    (Done /\ SasCase) =>
        /\ result.kind = "client"
        /\ result.ctor = "BlobServiceClient"
        /\ result.credential = "none"
        /\ result.account_url =
              ResolvedEndpoint \o
              (IF Head(credentials.sas_token) = "?" THEN <<>> ELSE <<"?">>) \o
              credentials.sas_token
        /\ (/\ credentials.account_name = Acct
            /\ credentials.sas_token = Sv2020
            /\ credentials.endpoint = None) =>
                result.account_url =
                    <<"h", "t", "t", "p", "s", ":", "/", "/", "a", "c", "c", "t",
                      ".", "b", "l", "o", "b", ".", "c", "o", "r", "e", ".",
                      "w", "i", "n", "d", "o", "w", "s", ".", "n", "e", "t",
                      "?", "s", "v", "=", "2", "0", "2", "0">>

C4_Witness ==
    /\ Done
    /\ SasCase
    /\ Truthy(credentials.endpoint)
    /\ given.endpoint = None
    /\ SubSeq(result.account_url, 1, Len(credentials.endpoint)) = credentials.endpoint

\* the part of the account URL that follows the endpoint
AppendedToken ==
    SubSeq(result.account_url, Len(ResolvedEndpoint) + 1, Len(result.account_url))

\* C5: the token appended to the account URL is the token itself when it begins
\* with '?', and the token with exactly one '?' prepended otherwise; it begins
\* with '?', and normalizing it again changes nothing.
C5_TokenNormalization ==
    (Done /\ SasCase) =>
        LET t == credentials.sas_token
            q == AppendedToken
        IN  /\ SubSeq(result.account_url, 1, Len(ResolvedEndpoint)) = ResolvedEndpoint
            /\ Head(q) = "?"
            /\ Head(t) = "?" => q = t
            /\ Head(t) # "?" => (Tail(q) = t /\ Len(q) = Len(t) + 1)
            /\ NormalizeSas(q) = q
            /\ NormalizeSas(NormalizeSas(t)) = NormalizeSas(t)

C5_Witness ==
    /\ Done
    /\ SasCase
    /\ Len(credentials.sas_token) = 2
    /\ Head(credentials.sas_token) = "?"
    /\ AppendedToken = credentials.sas_token

\* C6: with no field set on the bundle (or no bundle) and none of the
\* environment variables of the resolver present, the call raises ValueError
\* and returns no client.
C6_NothingConfiguredRaises ==
    (Done /\ (\A f \in Fields : given[f] = None) /\ EnvUnset) =>
        /\ result.kind = "ValueError"
        /\ result.ctor = "none"

C6_Witness ==
    /\ Done
    /\ arg = "None"
    /\ EnvUnset
    /\ env[KeyVar] # None
    /\ result.kind = "ValueError"

C8_DefaultChainOnHttps ==
    (Done /\ OnlyAccount /\ StartsWith(ResolvedEndpoint, HttpsPrefix)) =>
        /\ result.kind = "client"
        /\ result.ctor = "BlobServiceClient"
        /\ result.credential = "DefaultAzureCredential"
        /\ result.account_url = ResolvedEndpoint
        /\ result.conn_str = None
        /\ \A k \in Opt(EnvKeys) :
              result = BuildClient(credentials, [env EXCEPT ![KeyVar] = k])

C8_Witness ==
    /\ Done
    /\ OnlyAccount
    /\ StartsWith(ResolvedEndpoint, HttpsPrefix)
    /\ credentials.endpoint = None
    /\ Truthy(env[KeyVar])
    /\ result.credential = "DefaultAzureCredential"

\* C9 (as stated): when the caller's bundle has connection_string set, the
\* other fields keep the values the caller gave them (unset stays unset) and
\* the client is built from the connection string.
C9_NoEnvironmentLookups ==
    (Done /\ Truthy(given.connection_string)) =>
        /\ \A f \in Fields \ {"connection_string"} :
              (given[f] = None \/ Truthy(given[f])) => credentials[f] = given[f]
        /\ result.conn_str = given.connection_string

\* C9 (amended): when the caller's bundle has connection_string set, the client
\* is built from that string and from nothing else; the other fields the
\* caller set keep their values, and those the caller left unset are still
\* filled from the environment, without effect on the client.
C9_ConnectionStringBundle ==
    (Done /\ Truthy(given.connection_string)) =>
        /\ result.ctor = "from_connection_string"
        /\ result.conn_str = given.connection_string
        /\ result.account_url = None
        /\ result.credential = "none"
        /\ credentials.connection_string = given.connection_string
        /\ \A f \in Fields \ {"connection_string"} :
              credentials[f] = IF Truthy(given[f]) THEN given[f] ELSE env[EnvVar(f)]

C9_Witness ==
    /\ Done
    /\ given = AzureCredentials(<<"X">>, None, None, None)
    /\ \A f \in Fields \ {"connection_string"} :
          Truthy(env[EnvVar(f)]) /\ credentials[f] = env[EnvVar(f)]
    /\ result.conn_str = <<"X">>

CallOrder == <<"list_buckets", "get_bucket_location", "head_object", "list_objects_v2">>

\* where the script stands when test i has ended and test i + 1 is next
PcBeforeTest == <<"test1", "test2", "test3">>

Printed(msg) == \E i \in DOMAIN printed : printed[i] = msg

\* C11: when AWS_ACCESS_KEY_ID or AWS_SECRET_ACCESS_KEY is missing the script
\* exits with status 1 with no S3 client created and no S3 call made; otherwise
\* the S3 calls are made in the order list-buckets, get-bucket-location,
\* head-object; a test that returns or raises ClientError is followed by the
\* next test, and the third by the summary; and the bucket objects are listed
\* only after head-object raised a ClientError with code 404.
C11_S3DiagnosticOrder ==
    LET missing == \/ s3env["AWS_ACCESS_KEY_ID"] \in {None, <<>>}
                   \/ s3env["AWS_SECRET_ACCESS_KEY"] \in {None, <<>>}
    IN  /\ (missing /\ s3pc # "start") =>
              /\ s3pc = "exited"
              /\ exit_status = {1}
              /\ ~s3_client
              /\ calls = <<>>
        /\ (1 \in exit_status \/ s3pc = "exited") => missing
        /\ calls # <<>> => s3_client
        /\ Len(calls) <= Len(CallOrder)
        /\ \A i \in DOMAIN calls : calls[i].op = CallOrder[i]
        /\ \A i \in DOMAIN calls :
              (i < 3 /\ calls[i].raised \in {"none", "ClientError"}) =>
                  (Len(calls) > i \/ s3pc = PcBeforeTest[i + 1])
        /\ (Len(calls) >= 3 /\ calls[3].raised \in {"none", "ClientError"}) =>
              \/ s3pc = "listing" /\ Len(calls) = 3
              \/ s3pc = "end" /\ Printed("summary") /\ exit_status = {0}
        /\ (s3pc = "listing" \/ Len(calls) = 4) =>
              /\ calls[3].raised = "ClientError"
              /\ calls[3].code = "404"

C11_Witness ==
    /\ s3pc = "end"
    /\ Len(calls) = 4
    /\ calls[1].raised = "ClientError"
    /\ calls[2].raised = "ClientError"
    /\ calls[3].code = "404"
    /\ calls[4].op = "list_objects_v2"
    /\ Printed("summary")

====
